---- MODULE Spec2Model ----
(***************************************************************************)
(* Model of the movie watchlist server: routes/movies.js (the router, the  *)
(* JSON-file store and the TMDB client) as mounted by app.js.              *)
(*                                                                         *)
(* The stored collection is the content of data/movies.json.  Each request *)
(* is handled by an async handler; the handler's code between two awaits   *)
(* runs without interruption, so one action models one such stretch:       *)
(* the arrival of the request up to the first await, the completion of     *)
(* readMovies up to the next await, the completion of writeMovies or of    *)
(* the TMDB call up to the response.  Two requests may be in flight.       *)
(***************************************************************************)
EXTENDS Integers, Sequences, FiniteSets, TLC

\* ------------------------------------------------------------------ bounds

\* Requests accepted over a run.
MaxRequests == 2

\* The request slots: two requests may be in flight at the same time.
Procs == {1, 2}

\* ------------------------------------------------ JavaScript values

\* A JavaScript value of a request body or of a stored field.  t is the type
\* tag; a number is n, or n + 0.5 when half is TRUE; a string is s.
JSVal(t, n, half, s) == [t |-> t, n |-> n, half |-> half, s |-> s]
JSUndefined == JSVal("undefined", 0, FALSE, "")
JSNull == JSVal("null", 0, FALSE, "")
JSNaN == JSVal("nan", 0, FALSE, "")
JSBool(b) == JSVal("bool", IF b THEN 1 ELSE 0, FALSE, "")
JSNum(n) == JSVal("num", n, FALSE, "")
JSHalf(n) == JSVal("num", n, TRUE, "")
JSStr(s) == JSVal("str", 0, FALSE, s)

\* Number("..."): the strings the requests of this model carry.
StringToNumber(s) ==
    CASE s = "" -> JSNum(0)
      [] s = " " -> JSNum(0)
      [] s = "0" -> JSNum(0)
      [] s = "1" -> JSNum(1)
      [] s = "2" -> JSNum(2)
      [] s = "3" -> JSNum(3)
      [] s = "7" -> JSNum(7)
      [] OTHER -> JSNaN

\* String(n) for the numbers the stored records of this model carry.
IntToString(n) ==
    CASE n = 0 -> "0"
      [] n = 1 -> "1"
      [] n = 2 -> "2"
      [] n = 3 -> "3"
      [] n = 7 -> "7"
      [] n = 9 -> "9"
      [] n = -1 -> "-1"
      [] OTHER -> "other"

\* Number(v)
Number(v) ==
    CASE v.t = "undefined" -> JSNaN
      [] v.t = "null" -> JSNum(0)
      [] v.t = "bool" -> JSNum(v.n)
      [] v.t = "str" -> StringToNumber(v.s)
      [] OTHER -> v

\* String(v)
String(v) ==
    CASE v.t = "undefined" -> "undefined"
      [] v.t = "null" -> "null"
      [] v.t = "nan" -> "NaN"
      [] v.t = "bool" -> (IF v.n = 1 THEN "true" ELSE "false")
      [] v.t = "str" -> v.s
      [] OTHER -> (IF v.half THEN "fraction" ELSE IntToString(v.n))

\* Boolean(v), and the truthiness test of if (v), v || w, v ? a : b
Boolean(v) ==
    CASE v.t = "bool" -> v.n = 1
      [] v.t = "num" -> (v.n # 0 \/ v.half)
      [] v.t = "str" -> v.s # ""
      [] OTHER -> FALSE

\* Number.isFinite(v) for v the result of Number(...)
IsFinite(v) == v.t = "num"

\* v < k and v > k for a finite number v and an integer k
LessThan(v, k) == v.n < k
GreaterThan(v, k) == IF v.half THEN v.n >= k ELSE v.n > k

\* "..".trim() for the titles the requests of this model carry
Trim(s) == IF s = " " THEN "" ELSE s

\* The value JSON.stringify writes and JSON.parse reads back: NaN becomes null.
JSONValue(v) == IF v.t = "nan" THEN JSNull ELSE v

\* ------------------------------------------------------------- the store

VARIABLES
    dataFile,   \* the collection stored in data/movies.json, a sequence of records
    env,        \* process.env: which TMDB credentials are set; Unread until
                \* getTMDBAuth first reads it
    pc,         \* per request slot: where its handler stands
    req,        \* per request slot: the request being handled
    snap,       \* per request slot: the collection readMovies returned
    movies,     \* per request slot: the handler's array, as handed to writeMovies
    remote,     \* per request slot: the TMDB call it made and how the call ended
    resp,       \* per request slot: the response sent
    nreq        \* requests accepted so far

vars == <<dataFile, env, pc, req, snap, movies, remote, resp, nreq>>

\* JSON.stringify(movies) followed by JSON.parse: what a later read returns.
JSONRecord(m) == [m EXCEPT !.tmdb_id = JSONValue(m.tmdb_id), !.rating = JSONValue(m.rating)]
JSONRoundTrip(ms) == [i \in 1..Len(ms) |-> JSONRecord(ms[i])]

\* readMovies(): the parsed array
readMovies == dataFile

\* writeMovies(movies): the file holds the serialised array
writeMovies(ms) == dataFile' = JSONRoundTrip(ms)

\* Math.max over a non-empty set of integers
Max(S) == CHOOSE x \in S : \A y \in S : y <= x

\* nextId(movies): reduce with Math.max(max, Number(m.id) || 0), from 0
nextId(ms) == Max({0} \cup {ms[i].id : i \in 1..Len(ms)}) + 1

\* movies.findIndex / movies.find by Number(m.id) === id: first index, 0 if none
FindIndex(ms, id) ==
    IF \E i \in 1..Len(ms) : ms[i].id = id
    THEN CHOOSE i \in 1..Len(ms) : ms[i].id = id /\ \A j \in 1..(i - 1) : ms[j].id # id
    ELSE 0

\* ------------------------------------------------------------ requests

\* A response: its HTTP status, the text of its error or message field, the
\* record it carries (a sequence of length 0 or 1), the detail page's
\* <<director, cast, runtime>>, the upstream status a 502 forwards, and the
\* number of search results (-1 when it carries none).
Response(status, message, movie, detail, upstream, results) ==
    [status |-> status, message |-> message, movie |-> movie, detail |-> detail,
     upstream |-> upstream, results |-> results]
NoResponse == Response(0, "", <<>>, <<>>, 0, -1)
Status(s, message) == Response(s, message, <<>>, <<>>, 0, -1)
WithMovie(s, message, m) == Response(s, message, <<m>>, <<>>, 0, -1)

NoRequest == [kind |-> "none"]

\* No TMDB call made.
NoCall == [call |-> "none", outcome |-> "none", status |-> 0]

\* req.params.id of the /:id routes: the id of the first record added, which
\* each route is sent every body for; the id of the second, and an id that is
\* no number, which each route is sent one request for
PathIds == {"1"}
OtherPathId == "2"
BadPathId == "abc"

\* req.body of POST /movies
PostBody(tmdb_id, title) ==
    [tmdb_id |-> tmdb_id, title |-> title, year |-> JSStr("2021"),
     poster_path |-> JSUndefined, overview |-> JSUndefined]
PostBodies ==
    { PostBody(tmdb_id, JSStr("Dune")) :
        tmdb_id \in {JSUndefined, JSNum(7), JSStr("7"), JSStr("abc")} }
    \cup { PostBody(JSNum(7), JSStr(" ")) }

\* req.body of PUT /movies/:id, the fields it overwrites
PutBodies ==
    { [id |-> -1], [id |-> 2], [rating |-> JSNum(9)] }

\* req.body[flagName] of PUT /movies/:id/watched|liked|watchlist
FlagNames == {"watched", "liked", "watchlist"}
FlagValues == {JSUndefined, JSBool(TRUE), JSBool(FALSE), JSStr("false")}

\* req.body of PUT /movies/:id/review
ReviewBodies ==
    { [rating |-> rating, review |-> JSStr("fine")] :
        rating \in {JSUndefined, JSNull, JSStr(""), JSStr("abc"),
                    JSNum(0), JSNum(5), JSNum(6), JSHalf(2)} }
    \cup { [rating |-> JSStr("3"), review |-> JSUndefined] }

\* req.query.q of GET /movies/search
Queries == {JSUndefined, JSStr(" "), JSStr("batman")}

\* What the network gives the TMDB call: the fetch rejects, or a response
\* arrives with a status and (for a 2xx) a JSON body.
DetailData ==
    { [director |-> "", cast |-> <<>>, runtime |-> 0],
      [director |-> "Denis Villeneuve", cast |-> <<"a", "b", "c", "d">>, runtime |-> 155] }
SearchData == { <<>>, <<"Batman">> }
Network(data) ==
    { [kind |-> "reject", status |-> 0, data |-> d] : d \in {CHOOSE d \in data : TRUE} }
    \cup { [kind |-> "response", status |-> 404, data |-> d] : d \in {CHOOSE d \in data : TRUE} }
    \cup { [kind |-> "response", status |-> 200, data |-> d] : d \in data }

\* No handler runs in the slot: none started, or the last one returned.
Vacant(p) == pc[p] \in {"idle", "done", "failed"}

\* A request is served in the first vacant slot: the slots only name the
\* handler invocations in flight, so which vacant one is taken is immaterial.
Free(p) ==
    /\ Vacant(p)
    /\ \A q \in Procs : q < p => ~Vacant(q)
    /\ nreq < MaxRequests

\* The slot takes request r and runs to position at, where it awaits; or to
\* "done" with a response, when the handler rejects the request on arrival.
Accept(p, r, at, response) ==
    /\ Free(p)
    /\ nreq' = nreq + 1
    /\ req' = [req EXCEPT ![p] = r]
    /\ pc' = [pc EXCEPT ![p] = at]
    /\ snap' = [snap EXCEPT ![p] = <<>>]
    /\ movies' = [movies EXCEPT ![p] = <<>>]
    /\ remote' = [remote EXCEPT ![p] = NoCall]
    /\ resp' = [resp EXCEPT ![p] = response]
    /\ UNCHANGED <<dataFile, env>>

\* The handler answers and returns: its locals are gone.
Reply(p, response) ==
    /\ pc' = [pc EXCEPT ![p] = "done"]
    /\ resp' = [resp EXCEPT ![p] = response]
    /\ req' = [req EXCEPT ![p] = NoRequest]
    /\ snap' = [snap EXCEPT ![p] = <<>>]
    /\ movies' = [movies EXCEPT ![p] = <<>>]

\* The handler awaits at position at, holding the array ms it read and the
\* array out it hands to writeMovies.
Await(p, at, ms, out) ==
    /\ pc' = [pc EXCEPT ![p] = at]
    /\ snap' = [snap EXCEPT ![p] = ms]
    /\ movies' = [movies EXCEPT ![p] = out]
    /\ UNCHANGED <<req, resp>>

\* const id = Number(req.params.id)
PathId(p) == Number(JSStr(req[p].id))

\* ------------------------------------------------------------ POST /movies

PostBegin(p) ==
    \E body \in PostBodies :
        Accept(p, [kind |-> "post", body |-> body], "read", NoResponse)

\* Exists comparing with === alone, without String(): a number never equals
\* its digits.
ExistsStrict(ms, tmdb_id) ==
    /\ Boolean(tmdb_id)
    /\ \E i \in 1..Len(ms) : ms[i].tmdb_id = tmdb_id

\* if (tmdb_id) movies.some((m) => String(m.tmdb_id) === String(tmdb_id))
Exists(ms, tmdb_id) ==
    /\ Boolean(tmdb_id)
    /\ \E i \in 1..Len(ms) : String(ms[i].tmdb_id) = String(tmdb_id)

NewMovie(ms, body) ==
    LET tmdb_id == IF body.tmdb_id.t \in {"undefined", "null"} THEN JSNull ELSE body.tmdb_id
    IN  [id |-> nextId(ms),
         tmdb_id |-> IF Boolean(tmdb_id) THEN Number(tmdb_id) ELSE JSNull,
         title |-> Trim(String(IF Boolean(body.title) THEN body.title ELSE JSStr(""))),
         year |-> IF Boolean(body.year) THEN JSStr(Trim(String(body.year))) ELSE JSNull,
         poster_path |-> IF body.poster_path.t \in {"undefined", "null"}
                         THEN JSNull ELSE body.poster_path,
         overview |-> IF Boolean(body.overview) THEN String(body.overview) ELSE "",
         watched |-> FALSE,
         watchlist |-> TRUE,
         liked |-> FALSE,
         rating |-> JSNull,
         review |-> ""]

PostAfterRead(p) ==
    /\ pc[p] = "read" /\ req[p].kind = "post"
    /\ LET ms == readMovies
           newMovie == NewMovie(ms, req[p].body)
       IN  IF newMovie.title = ""
              THEN Reply(p, Status(400, "Title is required."))
              ELSE IF Exists(ms, req[p].body.tmdb_id)
              THEN Reply(p, Status(409, "Movie already exists in watchlist."))
              ELSE Await(p, "write", ms, Append(ms, newMovie))
    /\ UNCHANGED <<dataFile, env, remote, nreq>>

\* PostAfterWrite with a version check: a write whose read is stale is refused.
PostAfterWriteChecked(p) ==
    /\ pc[p] = "write" /\ req[p].kind = "post"
    /\ IF dataFile = snap[p]
       THEN /\ writeMovies(movies[p])
            /\ Reply(p, WithMovie(201, "", JSONRecord(movies[p][Len(movies[p])])))
       ELSE /\ UNCHANGED dataFile
            /\ Reply(p, Status(409, "Conflict"))
    /\ UNCHANGED <<env, remote, nreq>>

PostAfterWrite(p) ==
    /\ pc[p] = "write" /\ req[p].kind = "post"
    /\ writeMovies(movies[p])
    /\ Reply(p, WithMovie(201, "", JSONRecord(movies[p][Len(movies[p])])))
    /\ UNCHANGED <<env, remote, nreq>>

\* -------------------------------------------------------- PUT /movies/:id

PutRequests ==
    { [kind |-> "put", id |-> id, body |-> updates] : id \in PathIds, updates \in PutBodies }
    \cup { [kind |-> "put", id |-> id, body |-> [rating |-> JSNum(9)]] :
            id \in {OtherPathId, BadPathId} }

PutBegin(p) ==
    \E r \in PutRequests :
            IF IsFinite(Number(JSStr(r.id)))
            THEN Accept(p, r, "read", NoResponse)
            ELSE Accept(p, r, "done", Status(400, "Invalid movie id."))

\* { ...movie, ...updates }
Merge(movie, updates) ==
    [f \in DOMAIN movie \cup DOMAIN updates |->
        IF f \in DOMAIN updates THEN updates[f] ELSE movie[f]]

PutAfterRead(p) ==
    /\ pc[p] = "read" /\ req[p].kind = "put"
    /\ LET ms == readMovies
           idx == FindIndex(ms, PathId(p).n)
       IN  IF idx = 0
              THEN Reply(p, Status(404, "Movie not found."))
              ELSE Await(p, "write", ms, [ms EXCEPT ![idx] = Merge(ms[idx], req[p].body)])
    /\ UNCHANGED <<dataFile, env, remote, nreq>>

PutAfterWrite(p) ==
    /\ pc[p] = "write" /\ req[p].kind = "put"
    /\ writeMovies(movies[p])
    /\ Reply(p, WithMovie(200, "", JSONRecord(movies[p][FindIndex(snap[p], PathId(p).n)])))
    /\ UNCHANGED <<env, remote, nreq>>

\* ----------------------------- PUT /movies/:id/watched|liked|watchlist

ToggleRequest(id, flagName, desired) ==
    [kind |-> "toggle", id |-> id, flagName |-> flagName, desired |-> desired]
ToggleRequests ==
    { ToggleRequest(id, flagName, desired) :
        id \in PathIds, flagName \in FlagNames, desired \in FlagValues }
    \cup { ToggleRequest(id, "watched", JSBool(TRUE)) : id \in {OtherPathId, BadPathId} }

ToggleBegin(p) ==
    \E r \in ToggleRequests :
            IF IsFinite(Number(JSStr(r.id)))
            THEN Accept(p, r, "read", NoResponse)
            ELSE Accept(p, r, "done", Status(400, "Invalid movie id."))

\* toggleFlag without the two rules: the flag alone is set.
toggleFlagAlone(movie, flagName, desired) ==
    [movie EXCEPT ![flagName] = IF desired.t # "undefined" THEN Boolean(desired) ELSE TRUE]

\* toggleFlag with the first rule alone: watched set true clears watchlist,
\* watchlist set true leaves watched as it is.
toggleFlagWatchedRule(movie, flagName, desired) ==
    LET value == IF desired.t # "undefined" THEN Boolean(desired) ELSE TRUE
        set == [movie EXCEPT ![flagName] = value]
    IN  IF flagName = "watched" /\ set.watched
        THEN [set EXCEPT !.watchlist = FALSE] ELSE set

\* movie[flagName] = desired !== undefined ? Boolean(desired) : true, then the
\* two rules that keep watched and watchlist apart
toggleFlag(movie, flagName, desired) ==
    LET value == IF desired.t # "undefined" THEN Boolean(desired) ELSE TRUE
        set == [movie EXCEPT ![flagName] = value]
        unlisted == IF flagName = "watched" /\ set.watched
                    THEN [set EXCEPT !.watchlist = FALSE] ELSE set
    IN  IF flagName = "watchlist" /\ unlisted.watchlist
        THEN [unlisted EXCEPT !.watched = FALSE] ELSE unlisted

ToggleAfterRead(p) ==
    /\ pc[p] = "read" /\ req[p].kind = "toggle"
    /\ LET ms == readMovies
           idx == FindIndex(ms, PathId(p).n)
       IN  IF idx = 0
              THEN Reply(p, Status(404, "Movie not found."))
              ELSE Await(p, "write", ms, [ms EXCEPT ![idx] = toggleFlag(ms[idx], req[p].flagName, req[p].desired)])
    /\ UNCHANGED <<dataFile, env, remote, nreq>>

ToggleAfterWrite(p) ==
    /\ pc[p] = "write" /\ req[p].kind = "toggle"
    /\ writeMovies(movies[p])
    /\ Reply(p, WithMovie(200, req[p].flagName \o " updated", JSONRecord(movies[p][FindIndex(snap[p], PathId(p).n)])))
    /\ UNCHANGED <<env, remote, nreq>>

\* ------------------------------------------------- PUT /movies/:id/review

\* const rating = ratingRaw === null || ratingRaw === "" ? null : Number(ratingRaw)
Rating(ratingRaw) ==
    IF ratingRaw.t = "null" \/ ratingRaw = JSStr("") THEN JSNull ELSE Number(ratingRaw)

\* RatingRejected without the upper limit.
RatingRejectedBelow(rating) ==
    /\ rating.t # "null"
    /\ (~IsFinite(rating) \/ LessThan(rating, 1))

\* rating !== null && (!Number.isFinite(rating) || rating < 1 || rating > 5)
RatingRejected(rating) ==
    /\ rating.t # "null"
    /\ (~IsFinite(rating) \/ LessThan(rating, 1) \/ GreaterThan(rating, 5))

ReviewRequests ==
    { [kind |-> "review", id |-> id, body |-> body] : id \in PathIds, body \in ReviewBodies }
    \cup { [kind |-> "review", id |-> id,
            body |-> [rating |-> JSNum(5), review |-> JSStr("fine")]] :
            id \in {OtherPathId, BadPathId} }

ReviewBegin(p) ==
    \E r \in ReviewRequests :
            IF ~IsFinite(Number(JSStr(r.id)))
            THEN Accept(p, r, "done", Status(400, "Invalid movie id."))
            ELSE IF RatingRejected(Rating(r.body.rating))
            THEN Accept(p, r, "done", Status(400, "Rating must be a number from 1 to 5."))
            ELSE Accept(p, r, "read", NoResponse)

ReviewAfterRead(p) ==
    /\ pc[p] = "read" /\ req[p].kind = "review"
    /\ LET ms == readMovies
           idx == FindIndex(ms, PathId(p).n)
           review == IF Boolean(req[p].body.review) THEN String(req[p].body.review) ELSE ""
       IN  IF idx = 0
              THEN Reply(p, Status(404, "Movie not found."))
              ELSE Await(p, "write", ms, [ms EXCEPT ![idx] = [ms[idx] EXCEPT !.rating = Rating(req[p].body.rating),
                                                            !.review = review]])
    /\ UNCHANGED <<dataFile, env, remote, nreq>>

ReviewAfterWrite(p) ==
    /\ pc[p] = "write" /\ req[p].kind = "review"
    /\ writeMovies(movies[p])
    /\ Reply(p, WithMovie(200, "", JSONRecord(movies[p][FindIndex(snap[p], PathId(p).n)])))
    /\ UNCHANGED <<env, remote, nreq>>

\* ----------------------------------------------------- DELETE /movies/:id

DeleteBegin(p) ==
    \E id \in PathIds \cup {OtherPathId, BadPathId} :
        LET r == [kind |-> "delete", id |-> id]
        IN  IF IsFinite(Number(JSStr(id)))
            THEN Accept(p, r, "read", NoResponse)
            ELSE Accept(p, r, "done", Status(400, "Invalid movie id."))

\* Filtered comparing m.id with the path's string: no number equals it, so
\* every record is kept.
FilteredByString(ms, id) == ms

\* movies.filter((m) => Number(m.id) !== id)
Filtered(ms, id) == SelectSeq(ms, LAMBDA m : m.id # id)

DeleteAfterRead(p) ==
    /\ pc[p] = "read" /\ req[p].kind = "delete"
    /\ LET ms == readMovies
           filtered == Filtered(ms, PathId(p).n)
       IN  IF Len(filtered) = Len(ms)
              THEN Reply(p, Status(404, "Movie not found."))
              ELSE Await(p, "write", ms, filtered)
    /\ UNCHANGED <<dataFile, env, remote, nreq>>

DeleteAfterWrite(p) ==
    /\ pc[p] = "write" /\ req[p].kind = "delete"
    /\ writeMovies(movies[p])
    /\ Reply(p, Status(204, ""))
    /\ UNCHANGED <<env, remote, nreq>>

\* ---------------------------------------------------------- TMDB client

\* process.env as the server's start left it.  Nothing writes it, and only
\* getTMDBAuth reads it: what it holds is settled at the first read and stays.
Unread == [TMDB_READ_TOKEN |-> FALSE, TMDB_API_KEY |-> FALSE, read |-> FALSE]
Environments ==
    { [TMDB_READ_TOKEN |-> FALSE, TMDB_API_KEY |-> key, read |-> TRUE] : key \in BOOLEAN }
ProcessEnv == IF env.read THEN {env} ELSE Environments

\* getTMDBAuth(): the read token first, the API key second, else null
getTMDBAuth(e) ==
    IF e.TMDB_READ_TOKEN THEN "bearer"
    ELSE IF e.TMDB_API_KEY THEN "apikey"
    ELSE "null"

\* tmdbFetchJson(url), given what the network does with the call.  threw: the
\* awaited fetch rejected, so the function's promise rejects too.
tmdbFetchJson(e, net) ==
    IF getTMDBAuth(e) = "null"
    THEN [threw |-> FALSE, ok |-> FALSE, status |-> 500, data |-> net.data, called |-> FALSE]
    ELSE IF net.kind = "reject"
    THEN [threw |-> TRUE, ok |-> FALSE, status |-> 0, data |-> net.data, called |-> TRUE]
    ELSE IF net.status # 200
    THEN [threw |-> FALSE, ok |-> FALSE, status |-> net.status, data |-> net.data, called |-> TRUE]
    ELSE [threw |-> FALSE, ok |-> TRUE, status |-> net.status, data |-> net.data, called |-> TRUE]

\* The call a handler made and how it ended, for the record in remote[p]:
\* no credentials so no call went out, the fetch rejected, a non-2xx status
\* came back, or a 2xx with its JSON.
Outcome(call, result) ==
    [call |-> call,
     outcome |-> IF ~result.called THEN "credentials"
                 ELSE IF result.threw THEN "rejected"
                 ELSE IF ~result.ok THEN "status"
                 ELSE "ok",
     status |-> result.status]

\* An async handler's promise rejects.  The router does not catch it: under
\* Express 4 nothing answers the request; under Express 5 the rejection reaches
\* app.js's central error handler, which answers /movies paths with a JSON 500.
Rejected(p) ==
    \/ /\ pc' = [pc EXCEPT ![p] = "failed"]
       /\ req' = [req EXCEPT ![p] = NoRequest]
       /\ snap' = [snap EXCEPT ![p] = <<>>]
       /\ movies' = [movies EXCEPT ![p] = <<>>]
       /\ UNCHANGED resp
    \/ Reply(p, Status(500, "Internal server error"))

\* ------------------------------------------------------ GET /movies/search

SearchBegin(p) ==
    \E query \in Queries :
        LET r == [kind |-> "search", q |-> query]
            q == Trim(String(IF Boolean(query) THEN query ELSE JSStr("")))
        IN  IF q = ""
            THEN Accept(p, r, "done", Status(400, "Search query is required"))
            ELSE Accept(p, r, "fetch", NoResponse)

SearchAfterFetch(p) ==
    /\ pc[p] = "fetch" /\ req[p].kind = "search"
    /\ \E e \in ProcessEnv, net \in Network(SearchData) :
        LET result == tmdbFetchJson(e, net)
        IN  /\ env' = e
            /\ remote' = [remote EXCEPT ![p] = Outcome("search", result)]
            /\ IF result.threw
               THEN Rejected(p)
               ELSE IF ~result.ok
               THEN Reply(p, Response(502, "TMDB request failed", <<>>, <<>>, result.status, -1))
               ELSE Reply(p, Response(200, "", <<>>, <<>>, 0, Len(result.data)))
    /\ UNCHANGED <<dataFile, nreq>>

\* --------------------------------------------------------- GET /movies/:id

GetBegin(p) ==
    \E id \in PathIds \cup {OtherPathId, BadPathId} :
        LET r == [kind |-> "get", id |-> id]
        IN  IF IsFinite(Number(JSStr(id)))
            THEN Accept(p, r, "read", NoResponse)
            ELSE Accept(p, r, "done", Status(400, "Invalid movie id"))

Unknown == <<"Unknown", "Unknown", "Unknown">>

\* names.join(", ")
RECURSIVE Join(_)
Join(names) ==
    IF names = <<>> THEN ""
    ELSE IF Len(names) = 1 THEN names[1]
    ELSE names[1] \o ", " \o Join(Tail(names))

\* director, cast and runtime from a successful details response
Details(tmdbData) ==
    LET cast == Join(SubSeq(tmdbData.cast, 1, IF Len(tmdbData.cast) < 3 THEN Len(tmdbData.cast) ELSE 3))
    IN  << IF tmdbData.director # "" THEN tmdbData.director ELSE "Unknown",
           IF cast # "" THEN cast ELSE "Unknown",
           IF tmdbData.runtime # 0 THEN ToString(tmdbData.runtime) \o " minutes" ELSE "Unknown" >>

GetAfterRead(p) ==
    /\ pc[p] = "read" /\ req[p].kind = "get"
    /\ LET ms == readMovies
           idx == FindIndex(ms, PathId(p).n)
       IN  IF idx = 0
              THEN Reply(p, Status(404, "Movie not found"))
              ELSE IF Boolean(ms[idx].tmdb_id)
              THEN Await(p, "fetch", ms, <<>>)
              ELSE Reply(p, Response(200, "", <<ms[idx]>>, Unknown, 0, -1))
    /\ UNCHANGED <<dataFile, env, remote, nreq>>

GetAfterFetch(p) ==
    /\ pc[p] = "fetch" /\ req[p].kind = "get"
    /\ \E e \in ProcessEnv, net \in Network(DetailData) :
        LET result == tmdbFetchJson(e, net)
            movie == snap[p][FindIndex(snap[p], PathId(p).n)]
        IN  /\ env' = e
            /\ remote' = [remote EXCEPT ![p] = Outcome("details", result)]
            /\ IF result.threw
               THEN Rejected(p)
               ELSE IF result.ok
               THEN Reply(p, Response(200, "", <<movie>>, Details(result.data), 0, -1))
               ELSE Reply(p, Response(200, "", <<movie>>, Unknown, 0, -1))
    /\ UNCHANGED <<dataFile, nreq>>

\* ------------------------------------------------------- the specification

\* The file a server finds when it starts: none (read as the empty array), or
\* the one an earlier run left after a single add.
StartFiles == { <<>>, <<NewMovie(<<>>, PostBody(JSNum(7), JSStr("Dune")))>> }

\* The server starts on one of these files.
Init ==
    /\ dataFile \in StartFiles
    /\ env = Unread
    /\ pc = [p \in Procs |-> "idle"]
    /\ req = [p \in Procs |-> NoRequest]
    /\ snap = [p \in Procs |-> <<>>]
    /\ movies = [p \in Procs |-> <<>>]
    /\ remote = [p \in Procs |-> NoCall]
    /\ resp = [p \in Procs |-> NoResponse]
    /\ nreq = 0

Next ==
    \E p \in Procs :
        \/ PostBegin(p) \/ PostAfterRead(p) \/ PostAfterWrite(p)
        \/ PutBegin(p) \/ PutAfterRead(p) \/ PutAfterWrite(p)
        \/ ToggleBegin(p) \/ ToggleAfterRead(p) \/ ToggleAfterWrite(p)
        \/ ReviewBegin(p) \/ ReviewAfterRead(p) \/ ReviewAfterWrite(p)
        \/ DeleteBegin(p) \/ DeleteAfterRead(p) \/ DeleteAfterWrite(p)
        \/ SearchBegin(p) \/ SearchAfterFetch(p)
        \/ GetBegin(p) \/ GetAfterRead(p) \/ GetAfterFetch(p)

Spec == Init /\ [][Next]_vars

\* The router without PUT /movies/:id and without the two reading routes: the
\* add, the flag toggles, the rating/review and the delete, in any
\* interleaving.  Both start files are collections these operations make of
\* the empty one: the second is what one add leaves of it.
NextNoUpdate ==
    \E p \in Procs :
        \/ PostBegin(p) \/ PostAfterRead(p) \/ PostAfterWrite(p)
        \/ ToggleBegin(p) \/ ToggleAfterRead(p) \/ ToggleAfterWrite(p)
        \/ ReviewBegin(p) \/ ReviewAfterRead(p) \/ ReviewAfterWrite(p)
        \/ DeleteBegin(p) \/ DeleteAfterRead(p) \/ DeleteAfterWrite(p)

SpecNoUpdate == Init /\ [][NextNoUpdate]_vars

\* ------------------------------------------------------------ properties

\* The steps of slot p's handler for a request of the given kind: readMovies
\* completes and the handler runs on; writeMovies completes and it answers.
ReadStep(p, kind) == pc[p] = "read" /\ req[p].kind = kind /\ pc'[p] # "read"
WriteStep(p, kind) == pc[p] = "write" /\ req[p].kind = kind /\ pc'[p] # "write"

\* Slot p takes a request of the given kind.
Arrival(p, kind) ==
    /\ nreq' = nreq + 1
    /\ req'[p].kind = kind
    /\ <<pc'[p], req'[p], resp'[p]>> # <<pc[p], req[p], resp[p]>>

Ids(ms) == {ms[i].id : i \in 1..Len(ms)}

\* A body whose title is not blank.
HasTitle(body) == body.title.t = "str" /\ body.title.s \notin {"", " "}

\* A tmdb_id is given: the body carries one the handler takes for one.
Given(tmdb_id) == tmdb_id.t \notin {"undefined", "null"} /\ tmdb_id # JSNum(0) /\ tmdb_id # JSStr("")

\* The given tmdb_id names the same TMDB title as a stored one, as a number or
\* as the number's decimal digits.
SameTitle(stored, given) ==
    /\ stored.t = "num"
    /\ \/ given.t = "num" /\ given.n = stored.n /\ given.half = stored.half
       \/ given.t = "str" /\ ~stored.half /\ given.s = IntToString(stored.n)
Stored(ms, tmdb_id) ==
    Given(tmdb_id) /\ \E i \in 1..Len(ms) : SameTitle(ms[i].tmdb_id, tmdb_id)

\* C1: a POST /movies with a non-blank title and a tmdb_id that is absent or
\* matches no stored record is answered 201; the returned record's id is the
\* maximum id of the collection the request read plus 1 (1 when it is empty);
\* the stored collection is then the collection read with that record appended.
C1_AddAppendsNextId ==
    [][\A p \in Procs :
        /\ (ReadStep(p, "post") /\ HasTitle(req[p].body)
                /\ ~Stored(dataFile, req[p].body.tmdb_id))
            => pc'[p] = "write"
        /\ WriteStep(p, "post")
            => /\ pc'[p] = "done"
               /\ resp'[p].status = 201
               /\ Len(resp'[p].movie) = 1
               /\ resp'[p].movie[1].id =
                    (IF snap[p] = <<>> THEN 1 ELSE Max(Ids(snap[p])) + 1)
               /\ dataFile' = Append(snap[p], resp'[p].movie[1])]_vars

\* C2: no two records of the stored collection have the same id.
C2_IdsUnique ==
    \A i, j \in 1..Len(dataFile) : i # j => dataFile[i].id # dataFile[j].id

\* C3: a POST /movies with a non-blank title whose tmdb_id is given and equal
\* to a stored record's tmdb_id is answered 409, and nothing is written: the
\* handler returns with the stored collection as it was.
C3_DuplicateConflict ==
    [][\A p \in Procs :
        (ReadStep(p, "post") /\ HasTitle(req[p].body)
            /\ Stored(dataFile, req[p].body.tmdb_id))
        => /\ pc'[p] = "done"
           /\ resp'[p].status = 409
           /\ dataFile' = dataFile]_vars

\* A duplicate was refused while the record it duplicates is stored.
C3_Witness ==
    \E p \in Procs :
        /\ pc[p] = "done"
        /\ resp[p].status = 409
        /\ \E i \in 1..Len(dataFile) : dataFile[i].tmdb_id = JSNum(7)

\* The record a request for path id names, in the array ms.
Named(ms, id) == ms[FindIndex(ms, StringToNumber(id).n)]

\* The flag is asked to be true: in so many words, or by leaving it out.
SetsTrue(desired) == desired = JSUndefined \/ desired = JSBool(TRUE)

\* C4: a toggle request that sets watched to true, explicitly or by omitting
\* the flag, leaves the record watched and off the watchlist; one that sets
\* watchlist to true leaves it on the watchlist and not watched; a toggle of
\* liked changes neither watched nor watchlist.
C4_ToggleExclusive ==
    [][\A p \in Procs :
        WriteStep(p, "toggle")
        => LET before == Named(snap[p], req[p].id)
               after == Named(dataFile', req[p].id)
           IN  /\ (req[p].flagName = "watched" /\ SetsTrue(req[p].desired))
                    => after.watched /\ ~after.watchlist
               /\ (req[p].flagName = "watchlist" /\ SetsTrue(req[p].desired))
                    => after.watchlist /\ ~after.watched
               /\ req[p].flagName = "liked"
                    => /\ after.watched = before.watched
                       /\ after.watchlist = before.watchlist]_vars

\* A record, added on the watchlist, was toggled watched and is stored so.
C4_Witness ==
    \E p \in Procs :
        /\ pc[p] = "done"
        /\ resp[p].message = "watched updated"
        /\ resp[p].movie[1].watched /\ ~resp[p].movie[1].watchlist
        /\ \E i \in 1..Len(dataFile) : dataFile[i] = resp[p].movie[1]

\* C5: every stored record's rating is null or an integer from 1 to 5.
C5_RatingsInRange ==
    \A i \in 1..Len(dataFile) :
        LET rating == dataFile[i].rating
        IN  \/ rating.t = "null"
            \/ rating.t = "num" /\ ~rating.half /\ rating.n >= 1 /\ rating.n <= 5

\* A rating that is a number, or the digits of one.
Numeric(raw) == raw.t = "num" \/ (raw.t = "str" /\ raw.s \in {"0", "1", "2", "3", "7"})
\* A number from 1 to 5.
InRange(v) == v.n >= 1 /\ (v.n < 5 \/ (v.n = 5 /\ ~v.half))
\* A rating that is not null and is no number from 1 to 5.
Invalid(raw) ==
    /\ raw.t # "null"
    /\ ~Numeric(raw) \/ ~InRange(IF raw.t = "num" THEN raw ELSE StringToNumber(raw.s))

RECURSIVE Without(_, _)
Without(ms, id) ==
    IF ms = <<>> THEN <<>>
    ELSE IF Head(ms).id = id THEN Without(Tail(ms), id)
    ELSE <<Head(ms)>> \o Without(Tail(ms), id)

\* C7: a DELETE whose id matches no stored record is answered 404 and writes
\* nothing; one whose id matches is answered 204, and the stored collection is
\* then the collection read without the records of that id, the others and
\* their order unchanged.
C7_Delete ==
    [][\A p \in Procs :
        /\ ReadStep(p, "delete")
            => IF StringToNumber(req[p].id).n \in Ids(dataFile)
               THEN pc'[p] = "write"
               ELSE pc'[p] = "done" /\ resp'[p].status = 404 /\ dataFile' = dataFile
        /\ WriteStep(p, "delete")
            => /\ pc'[p] = "done"
               /\ resp'[p].status = 204
               /\ dataFile' = Without(snap[p], StringToNumber(req[p].id).n)]_vars

\* The first of two records was deleted and the second is what is stored.
C7_Witness ==
    \E p \in Procs :
        /\ pc[p] = "done"
        /\ resp[p].status = 204
        /\ Len(dataFile) = 1
        /\ dataFile[1].id = 2

\* C8: a detail request for a record with a tmdb_id is answered with the
\* rendered page whatever the TMDB call does: when the call fails (no
\* credentials, a non-2xx status, or the fetch rejecting) the handler neither
\* raises nor leaves the request unanswered, and director, cast and runtime
\* are all "Unknown".
C8_DetailsDegrade ==
    \A p \in Procs :
        (remote[p].call = "details" /\ remote[p].outcome # "ok")
        => /\ pc[p] = "done"
           /\ resp[p].status = 200
           /\ resp[p].detail = Unknown

\* C9: a search whose TMDB call fails (a non-2xx status, or the fetch
\* rejecting) is answered 502 with the upstream status, never with a result
\* array and never left as an unhandled error; a call that succeeds is answered
\* 200 with its matches, none included; an empty query is answered 400 and no
\* call is made.
C9_SearchFailureIs502 ==
    \A p \in Procs :
        /\ (remote[p].call = "search" /\ remote[p].outcome \in {"status", "rejected"})
            => /\ pc[p] = "done"
               /\ resp[p].status = 502
               /\ resp[p].results = -1
               /\ remote[p].outcome = "status" => resp[p].upstream = remote[p].status
        /\ (remote[p].call = "search" /\ remote[p].outcome = "ok")
            => pc[p] = "done" /\ resp[p].status = 200 /\ resp[p].results >= 0
        /\ (pc[p] = "done" /\ req[p].kind = "search")
            => resp[p].status = 400 /\ remote[p] = NoCall

\* C10: a request writes the whole array it made from its own read, with no
\* check of what the file holds by then: a write whose read is stale is
\* answered with success all the same, and the file then holds exactly the
\* writer's array.
C10_StaleWriteWins ==
    [][\A p \in Procs :
        (pc[p] = "write" /\ pc'[p] # "write" /\ dataFile # snap[p])
        => /\ pc'[p] = "done"
           /\ resp'[p].status \in {200, 201, 204}
           /\ dataFile' = JSONRoundTrip(movies[p])]_vars

\* Two adds were both answered 201, each with its own record, and the stored
\* collection is the later writer's record alone: the earlier one is lost.
C10_Witness ==
    \E p, q \in Procs :
        /\ p # q
        /\ pc[p] = "done" /\ resp[p].status = 201
        /\ pc[q] = "done" /\ resp[q].status = 201
        /\ resp[p].movie # resp[q].movie
        /\ dataFile = resp[q].movie

\* C11: with the generic update left out, no stored record is watched and on
\* the watchlist at the same time, whatever adds, flag toggles, ratings,
\* reviews and deletes ran and however they interleaved.
C11_WatchedExcludesWatchlist ==
    \A i \in 1..Len(dataFile) : ~(dataFile[i].watched /\ dataFile[i].watchlist)

\* A record was toggled watched and toggled back on the watchlist, both
\* answered, and is stored on the watchlist and not watched.
C11_Witness ==
    \E p, q \in Procs :
        /\ pc[p] = "done" /\ resp[p].message = "watched updated"
        /\ resp[p].movie[1].watched
        /\ pc[q] = "done" /\ resp[q].message = "watchlist updated"
        /\ resp[q].movie[1].id = resp[p].movie[1].id
        /\ \E i \in 1..Len(dataFile) :
            /\ dataFile[i] = resp[q].movie[1]
            /\ dataFile[i].watchlist /\ ~dataFile[i].watched

====
